---- MODULE Spec2Model ----
(***************************************************************************)
(* Model of the Open Library -> Neo4j pipeline:                            *)
(*   open_library_API.py : fetch_books_by_subject, extract_book_data,      *)
(*                         clean_data, main                                *)
(*   neo4j_connection.py : Neo4jConnector                                  *)
(* Text is kept as TLA+ strings; the string functions of Python and pandas *)
(* that the code uses are defined character by character below.            *)
(***************************************************************************)
EXTENDS Integers, Sequences, FiniteSets, TLC

\* ------------------------------------------------------------------------
\* Bounds of the model
\* ------------------------------------------------------------------------
\* largest number of rows of a DataFrame handed to load_books by a client
MaxRecords == 101
\* largest number of works in an API response fetched by main
MaxWorks == 1
\* number of distinct calendar days on which clean_data can run
MaxDays == 2
\* largest number of completed or aborted runs of main that is counted
MaxRuns == 2

\* ------------------------------------------------------------------------
\* Python values
\* ------------------------------------------------------------------------
\* a missing publish_year: None in the extracted dict, NaN in the DataFrame
NaN == -1

\* ------------------------------------------------------------------------
\* str methods and re functions used by the code
\* ------------------------------------------------------------------------
ascii_uppercase == "ABCDEFGHIJKLMNOPQRSTUVWXYZ"
ascii_lowercase == "abcdefghijklmnopqrstuvwxyz"
digits == "0123456789"

CharAt(s, i) == SubSeq(s, i, i)

IsIn(c, alphabet) == \E i \in 1..Len(alphabet) : CharAt(alphabet, i) = c

IndexIn(c, alphabet) == CHOOSE i \in 1..Len(alphabet) : CharAt(alphabet, i) = c

isupper(c) == IsIn(c, ascii_uppercase)
islower(c) == IsIn(c, ascii_lowercase)
isalpha(c) == isupper(c) \/ islower(c)
isdigit(c) == IsIn(c, digits)
isspace(c) == c \in {" ", "\t"}

lower_char(c) == IF isupper(c) THEN CharAt(ascii_lowercase, IndexIn(c, ascii_uppercase)) ELSE c
upper_char(c) == IF islower(c) THEN CharAt(ascii_uppercase, IndexIn(c, ascii_lowercase)) ELSE c

RECURSIVE lower(_)
lower(s) == IF s = "" THEN "" ELSE lower_char(CharAt(s, 1)) \o lower(Tail(s))

\* str.title(): a letter that follows a letter is lowercased, any other
\* letter is uppercased, other characters are kept
RECURSIVE title_from(_, _)
title_from(s, i) ==
    IF i > Len(s) THEN ""
    ELSE LET c == CharAt(s, i)
             t == IF ~isalpha(c) THEN c
                  ELSE IF i > 1 /\ isalpha(CharAt(s, i - 1)) THEN lower_char(c)
                  ELSE upper_char(c)
         IN t \o title_from(s, i + 1)

title(s) == title_from(s, 1)

RECURSIVE lstrip(_)
lstrip(s) == IF s # "" /\ isspace(CharAt(s, 1)) THEN lstrip(Tail(s)) ELSE s

RECURSIVE rstrip(_)
rstrip(s) ==
    IF s # "" /\ isspace(CharAt(s, Len(s))) THEN rstrip(SubSeq(s, 1, Len(s) - 1)) ELSE s

strip(s) == rstrip(lstrip(s))

\* re.sub(r'[^a-zA-Z0-9]', '', s)
RECURSIVE sub_non_alnum(_)
sub_non_alnum(s) ==
    IF s = "" THEN ""
    ELSE LET c == CharAt(s, 1)
         IN (IF isalpha(c) \/ isdigit(c) THEN c ELSE "") \o sub_non_alnum(Tail(s))

\* Series.str.replace(r'\s+', ' ', regex=True): every run of whitespace
\* becomes one space
RECURSIVE replace_ws_runs(_)
replace_ws_runs(s) ==
    IF s = "" THEN ""
    ELSE IF isspace(CharAt(s, 1)) THEN " " \o replace_ws_runs(lstrip(s))
    ELSE CharAt(s, 1) \o replace_ws_runs(Tail(s))

\* s[:n]
slice_to(s, n) == SubSeq(s, 1, IF Len(s) < n THEN Len(s) ELSE n)

\* sep.join(parts)
RECURSIVE join(_, _)
join(sep, parts) ==
    IF parts = <<>> THEN ""
    ELSE IF Len(parts) = 1 THEN parts[1]
    ELSE parts[1] \o sep \o join(sep, Tail(parts))

\* s.find(sep) from position i on, 1-based; 0 when sep does not occur
RECURSIVE find_from(_, _, _)
find_from(s, sep, i) ==
    IF i + Len(sep) - 1 > Len(s) THEN 0
    ELSE IF SubSeq(s, i, i + Len(sep) - 1) = sep THEN i
    ELSE find_from(s, sep, i + 1)

\* s.split(sep)
RECURSIVE split(_, _)
split(s, sep) ==
    LET k == find_from(s, sep, 1)
    IN IF k = 0 THEN <<s>>
       ELSE <<SubSeq(s, 1, k - 1)>> \o split(SubSeq(s, k + Len(sep), Len(s)), sep)

\* str(n) for an integer n >= 0
RECURSIVE str_int(_)
str_int(n) ==
    IF n < 10 THEN CharAt(digits, n + 1)
    ELSE str_int(n \div 10) \o CharAt(digits, (n % 10) + 1)

\* str() of a value of the publish_year column: the column is int64 when no
\* year is missing and float64 (NaN for the missing ones) otherwise
format_year(y, dtype) ==
    IF y = NaN THEN "nan"
    ELSE IF dtype = "float64" THEN str_int(y) \o ".0"
    ELSE str_int(y)

\* ------------------------------------------------------------------------
\* Data: works of the subject endpoint.  A dict is a record with the set of
\* keys it has; a field whose key is absent is never read.
\* ------------------------------------------------------------------------
Author(n) == [keys |-> {"name"}, name |-> n]

Work(ks, t, as, y, e) ==
    [keys |-> ks, title |-> t, authors |-> as, first_publish_year |-> y,
     edition_count |-> e, key |-> "/works/OL1W"]

AllKeys == {"title", "authors", "first_publish_year", "edition_count", "key"}

Gatsby == Work(AllKeys, " the great gatsby ", <<Author("F. Scott Fitzgerald")>>, 1925, 3)
Bare == Work({"title", "key"}, "dream notes", <<>>, 0, 0)
Stories ==
    Work(AllKeys, "The Great Gatsby and Other Stories",
         <<Author("Jane Doe"), Author("F. Scott Fitzgerald")>>, 1925, 2)
Others == Work(AllKeys, "The Great Gatsby and Others", <<>>, 1925, 1)
King == Work(AllKeys, "Why We Can't Wait", <<Author("Martin Luther King, Jr.")>>, 1964, 5)

WorkPool == <<Gatsby, Bare, Stories, Others, King>>

\* the JSON bodies the endpoint can answer with
Body(ks, ws) == [isNone |-> FALSE, keys |-> ks, name |-> "fiction", works |-> ws]
NoneValue == [isNone |-> TRUE, keys |-> {}, name |-> "", works |-> <<>>]

\* ------------------------------------------------------------------------
\* open_library_API.py
\* ------------------------------------------------------------------------
\* dict.get(key, default)
get(d, k, value, default) == IF k \in d.keys THEN value ELSE default

\* "not api_response": None and the empty dict are falsy
falsy(api_response) == api_response.isNone \/ api_response.keys = {}

author_names(work) ==
    IF "authors" \in work.keys
    THEN [i \in 1..Len(work.authors) |->
             get(work.authors[i], "name", work.authors[i].name, "Unknown")]
    ELSE <<>>

extract_book(api_response, work) ==
    LET authors == author_names(work)
        year == IF "first_publish_year" \in work.keys THEN work.first_publish_year ELSE NaN
    IN [title |-> get(work, "title", work.title, "Unknown Title"),
        authors |-> IF authors # <<>> THEN join(", ", authors) ELSE "Unknown",
        publish_year |-> year,
        subject |-> get(api_response, "name", api_response.name, "Unknown Subject"),
        edition_count |-> get(work, "edition_count", work.edition_count, 0),
        key |-> get(work, "key", work.key, "")]

extract_book_data(api_response) ==
    IF falsy(api_response) \/ "works" \notin api_response.keys THEN <<>>
    ELSE [i \in 1..Len(api_response.works) |-> extract_book(api_response, api_response.works[i])]

\* dtype of the publish_year column after pd.to_numeric
year_dtype(df) ==
    IF \E i \in 1..Len(df) : df[i].publish_year = NaN THEN "float64" ELSE "int64"

book_id(cleaned_title, publish_year, dtype) ==
    "book_" \o slice_to(sub_non_alnum(lower(cleaned_title)), 20) \o "_"
            \o format_year(publish_year, dtype)

clean_row(row, dtype, today) ==
    LET cleaned_title == title(strip(row.title))
        authors == strip(replace_ws_runs(row.authors))
    IN [title |-> cleaned_title,
        authors |-> authors,
        publish_year |-> row.publish_year,
        subject |-> row.subject,
        edition_count |-> row.edition_count,
        key |-> row.key,
        id |-> book_id(cleaned_title, row.publish_year, dtype),
        entity_type |-> "book",
        date_ingested |-> today,
        confidence_score |-> IF row.publish_year # NaN /\ authors # "Unknown" THEN "1.0" ELSE "0.7"]

clean_data(df, today) == [i \in 1..Len(df) |-> clean_row(df[i], year_dtype(df), today)]

\* ------------------------------------------------------------------------
\* The graph database: node lists by label and relationship lists by type.
\* A relationship is a pair of node positions <<start, end>>, so two nodes
\* with equal properties are still two nodes.
\* ------------------------------------------------------------------------
EmptyGraph ==
    [Book |-> <<>>, Author |-> <<>>, Subject |-> <<>>, Year |-> <<>>,
     HAS_SUBJECT |-> <<>>, PUBLISHED_IN |-> <<>>, WRITTEN_BY |-> <<>>]

\* MATCH: positions of the nodes of a list whose key property equals k
match_book(g, id) == {i \in 1..Len(g.Book) : g.Book[i].id = id}
match_author(g, n) == {i \in 1..Len(g.Author) : g.Author[i].name = n}
match_subject(g, n) == {i \in 1..Len(g.Subject) : g.Subject[i].name = n}
match_year(g, v) == {i \in 1..Len(g.Year) : g.Year[i].value = v}

new_book(id) ==
    [id |-> id, title |-> "", edition_count |-> 0, confidence_score |-> "", date_ingested |-> 0]

\* MERGE (n:Label {key: k}): create the node unless one matches
merge_book(g, id) ==
    IF match_book(g, id) # {} THEN g ELSE [g EXCEPT !.Book = Append(@, new_book(id))]
create_author(g, n) == [g EXCEPT !.Author = Append(@, [name |-> n])]
merge_author(g, n) ==
    IF match_author(g, n) # {} THEN g ELSE [g EXCEPT !.Author = Append(@, [name |-> n])]
merge_subject(g, n) ==
    IF match_subject(g, n) # {} THEN g ELSE [g EXCEPT !.Subject = Append(@, [name |-> n])]
merge_year(g, v) ==
    IF match_year(g, v) # {} THEN g ELSE [g EXCEPT !.Year = Append(@, [value |-> v])]

\* MERGE (b)-[:TYPE]->(t) for every bound pair: create the relationship
\* unless the pair already has one; the new ones are appended in the order
\* of their start and end positions
before(p, q) == p[1] < q[1] \/ (p[1] = q[1] /\ p[2] < q[2])

merge_pairs(rels, pairs) ==
    LET new == {p \in pairs : \A k \in 1..Len(rels) : rels[k] # p}
        rank(p) == 1 + Cardinality({q \in new : before(q, p)})
    IN rels \o [k \in 1..Cardinality(new) |-> CHOOSE p \in new : rank(p) = k]

\* MERGE (b:Book {id: $id}) SET b.title = ..., ...
set_book(g, book) ==
    LET g1 == merge_book(g, book.id)
        bs == match_book(g1, book.id)
    IN [g1 EXCEPT !.Book = [i \in 1..Len(g1.Book) |->
           IF i \in bs
           THEN [g1.Book[i] EXCEPT !.title = book.title,
                                   !.edition_count = book.edition_count,
                                   !.confidence_score = book.confidence_score,
                                   !.date_ingested = book.date_ingested]
           ELSE g1.Book[i]]]

\* MERGE (s:Subject ...) MERGE (b:Book ...) MERGE (b)-[:HAS_SUBJECT]->(s)
link_subject(g, book) ==
    LET g1 == merge_book(merge_subject(g, book.subject), book.id)
    IN [g1 EXCEPT !.HAS_SUBJECT =
           merge_pairs(@, match_book(g1, book.id) \X match_subject(g1, book.subject))]

\* MERGE (y:Year ...) MERGE (b:Book ...) MERGE (b)-[:PUBLISHED_IN]->(y)
link_year(g, book) ==
    LET g1 == merge_book(merge_year(g, book.publish_year), book.id)
    IN [g1 EXCEPT !.PUBLISHED_IN =
           merge_pairs(@, match_book(g1, book.id) \X match_year(g1, book.publish_year))]

\* MERGE (a:Author ...) MERGE (b:Book ...) MERGE (b)-[:WRITTEN_BY]->(a)
link_author(g, book, author) ==
    LET g1 == merge_book(merge_author(g, author), book.id)
    IN [g1 EXCEPT !.WRITTEN_BY =
           merge_pairs(@, match_book(g1, book.id) \X match_author(g1, author))]

\* for author in book['authors'].split(', '): one statement per author, each
\* run on the graph the one before it left
RECURSIVE link_authors(_, _, _)
link_authors(g, book, authors) ==
    IF authors = <<>> THEN g
    ELSE CHOOSE r \in {link_authors(h, book, Tail(authors)) :
                          h \in {link_author(g, book, Head(authors))}} : TRUE

\* the body of the loop of create_book_nodes for one row
create_book_node(g, book) ==
    LET g1 == link_subject(set_book(g, book), book)
        g2 == IF book.publish_year # NaN THEN link_year(g1, book) ELSE g1
    IN IF book.authors # "Unknown" THEN link_authors(g2, book, split(book.authors, ", ")) ELSE g2

\* create_book_nodes(tx, batch): the statements of one write transaction,
\* row by row from row i of the batch on
RECURSIVE create_book_nodes_from(_, _, _)
create_book_nodes_from(g, batch, i) ==
    IF i > Len(batch) THEN g
    ELSE CHOOSE r \in {create_book_nodes_from(h, batch, i + 1) :
                          h \in {create_book_node(g, batch[i])}} : TRUE

create_book_nodes(g, batch) == create_book_nodes_from(g, batch, 1)

batch_size == 50

\* a slice that includes its end position, as .loc does
loc(books_df, i, j) == SubSeq(books_df, i + 1, IF j + 1 < Len(books_df) THEN j + 1 ELSE Len(books_df))

\* books_df.iloc[i:j], i counted from 0
iloc(books_df, i, j) == SubSeq(books_df, i + 1, IF j < Len(books_df) THEN j ELSE Len(books_df))

\* ------------------------------------------------------------------------
\* The analytics queries of run_analytics_queries
\* ------------------------------------------------------------------------
\* count(b) grouped by the end node: pairs <<key of the end node, count>>
count_by_end(rels, ends) ==
    {<<e, Cardinality({i \in 1..Len(rels) : rels[i][2] = e})>> :
        e \in {rels[i][2] : i \in 1..Len(rels)}}

\* ORDER BY count DESC LIMIT 5: five rows with the largest counts
limit5(rows) ==
    IF Cardinality(rows) <= 5 THEN rows
    ELSE CHOOSE top \in SUBSET rows :
            /\ Cardinality(top) = 5
            /\ \A r \in top, o \in rows \ top : r[2] >= o[2]

node_counts(g) ==
    {<<l, n>> \in {<<"Book", Len(g.Book)>>, <<"Author", Len(g.Author)>>,
                   <<"Subject", Len(g.Subject)>>, <<"Year", Len(g.Year)>>} : n > 0}

top_authors(g) ==
    limit5({<<g.Author[r[1]].name, r[2]>> : r \in count_by_end(g.WRITTEN_BY, g.Author)})

books_by_decade(g) ==
    LET decade(i) == g.Year[g.PUBLISHED_IN[i][2]].value \div 10
        decades == {decade(i) : i \in 1..Len(g.PUBLISHED_IN)}
    IN {<<d * 10, Cardinality({i \in 1..Len(g.PUBLISHED_IN) : decade(i) = d})>> : d \in decades}

top_subjects(g) ==
    limit5({<<g.Subject[r[1]].name, r[2]>> : r \in count_by_end(g.HAS_SUBJECT, g.Subject)})

AnalyticsKeys == <<"node_counts", "top_authors", "books_by_decade", "top_subjects">>

analytics_query(g, k) ==
    CASE k = 1 -> node_counts(g)
      [] k = 2 -> top_authors(g)
      [] k = 3 -> books_by_decade(g)
      [] k = 4 -> top_subjects(g)

EmptyDict == [k \in {} |-> {}]

ConstraintNames ==
    <<"book_id_constraint", "author_name_constraint",
      "subject_name_constraint", "year_value_constraint">>

\* ------------------------------------------------------------------------
\* State
\* ------------------------------------------------------------------------
VARIABLES
    driver,             \* Neo4jConnector.driver: "None", "open" or "closed"
    db,                 \* the nodes and relationships in the database
    constraints,        \* the uniqueness constraints in the database
    sessions,           \* number of sessions that are open
    op,                 \* the connector method that is running, or "idle"
    ip,                 \* where it is: "try" (before the with statement) or "with"
    i,                  \* its statement counter, or the row offset of load_books
    books_df,           \* the argument of load_books
    tx_log,             \* write transactions issued by the load_books call
    db0,                \* the database at the moment load_books was called
    analytics_results,  \* the dict run_analytics_queries builds
    result,             \* what the last connector method returned
    once,               \* the database after a complete load of cleaned_df into an empty one
    cleaned_df,         \* the normalized DataFrame of the client or of main
    pc,                 \* position of main, or of the client of the connector
    fetched,            \* what fetch_books_by_subject did in this run
    api_data,           \* main: value returned by fetch_books_by_subject
    books,              \* value returned by extract_book_data
    trace,              \* main: the stages invoked in this run, in order
    failed,             \* main: the stages of this run that reported failure
    runs                \* number of runs of main started

vars ==
    <<driver, db, constraints, sessions, op, ip, i, books_df, tx_log, db0,
      analytics_results, result, once, cleaned_df, pc, fetched, api_data, books,
      trace, failed, runs>>

conn_vars == <<driver, db, constraints, sessions, op, ip, i, books_df, tx_log, db0,
               analytics_results, result, once>>
caller_vars == <<cleaned_df, pc, fetched, api_data, books, trace, failed, runs>>

NoResult == [op |-> "none", value |-> "None", error |-> "none"]
NoFetch ==
    [gets |-> 0, outcome |-> "none", status |-> 0, raised |-> FALSE, returned_none |-> FALSE]

SessionOps ==
    {"verify_connection", "clear_database", "create_constraints", "load_books",
     "run_analytics_queries"}
GraphLoaderOps == SessionOps \cup {"connect"}

\* ------------------------------------------------------------------------
\* Neo4jConnector
\* ------------------------------------------------------------------------
\* the value a method returns: on its normal path, and from its except clause
return_value(o, caught) ==
    CASE o = "connect" -> IF caught THEN "False" ELSE "True"
      [] o = "verify_connection" -> IF caught THEN "False" ELSE "True"
      [] o = "run_analytics_queries" -> IF caught THEN "{}" ELSE "analytics_results"
      [] OTHER -> "None"

\* leaving a with block: the session is closed, on the normal path and when
\* an exception unwinds through it
exit_with(n) == n - 1
\* a session that is closed by hand on the normal path only
stay_open(n) == n
exit_with_on_error(n) == n - 1

Return(error) ==
    /\ op' = "idle"
    /\ ip' = "try"
    /\ i' = 0
    /\ result' = [op |-> op, value |-> return_value(op, error # "none"), error |-> error]

\* a caller invokes method o (books_df is the argument of load_books)
Invoke(o, arg) ==
    /\ op = "idle"
    /\ op' = o
    /\ ip' = "try"
    /\ i' = 0
    /\ result' = NoResult
    /\ tx_log' = <<>>
    /\ books_df' = arg
    /\ db0' = IF o = "load_books" THEN db ELSE EmptyGraph
    /\ analytics_results' = EmptyDict

\* connect: GraphDatabase.driver(...) returns a driver
Connect ==
    /\ op = "connect"
    /\ driver' = "open"
    /\ Return("none")
    /\ UNCHANGED <<db, constraints, sessions, books_df, tx_log, db0, analytics_results, once>>
    /\ UNCHANGED caller_vars

\* connect: GraphDatabase.driver(...) raises
ConnectFail ==
    /\ op = "connect"
    /\ Return("driver")
    /\ UNCHANGED <<driver, db, constraints, sessions, books_df, tx_log, db0, analytics_results, once>>
    /\ UNCHANGED caller_vars

\* close
Close ==
    /\ op = "close"
    /\ driver' = IF driver # "None" THEN "closed" ELSE driver
    /\ Return("none")
    /\ UNCHANGED <<db, constraints, sessions, books_df, tx_log, db0, analytics_results, once>>
    /\ UNCHANGED caller_vars

\* "with self.driver.session() as session": without a usable driver the
\* expression raises and the except clause of the method returns
EnterSession ==
    /\ op \in SessionOps
    /\ ip = "try"
    /\ IF driver = "open"
       THEN /\ sessions' = sessions + 1
            /\ ip' = "with"
            /\ i' = IF op = "load_books" THEN 0 ELSE 1
            /\ UNCHANGED <<op, result>>
       ELSE /\ Return("session")
            /\ UNCHANGED sessions
    /\ UNCHANGED <<driver, db, constraints, books_df, tx_log, db0, analytics_results, once>>
    /\ UNCHANGED caller_vars

\* a statement or a transaction raises inside the with block
Raise ==
    /\ sessions' = exit_with_on_error(sessions)
    /\ Return("statement")

\* verify_connection: the round trip succeeds, "return True" leaves the block
VerifyRun ==
    /\ op = "verify_connection" /\ ip = "with"
    /\ sessions' = exit_with(sessions)
    /\ Return("none")
    /\ UNCHANGED <<driver, db, constraints, books_df, tx_log, db0, analytics_results, once>>
    /\ UNCHANGED caller_vars

VerifyFail ==
    /\ op = "verify_connection" /\ ip = "with"
    /\ Raise
    /\ UNCHANGED <<driver, db, constraints, books_df, tx_log, db0, analytics_results, once>>
    /\ UNCHANGED caller_vars

\* clear_database: MATCH (n) DETACH DELETE n
ClearRun ==
    /\ op = "clear_database" /\ ip = "with"
    /\ db' = EmptyGraph
    /\ sessions' = exit_with(sessions)
    /\ Return("none")
    /\ UNCHANGED <<driver, constraints, books_df, tx_log, db0, analytics_results, once>>
    /\ UNCHANGED caller_vars

ClearFail ==
    /\ op = "clear_database" /\ ip = "with"
    /\ Raise
    /\ UNCHANGED <<driver, db, constraints, books_df, tx_log, db0, analytics_results, once>>
    /\ UNCHANGED caller_vars

\* create_constraints: the i-th CREATE CONSTRAINT ... IF NOT EXISTS
ConstraintsRun ==
    /\ op = "create_constraints" /\ ip = "with"
    /\ constraints' = constraints \cup {ConstraintNames[i]}
    /\ IF i < Len(ConstraintNames)
       THEN /\ i' = i + 1
            /\ UNCHANGED <<op, ip, result, sessions>>
       ELSE /\ sessions' = exit_with(sessions)
            /\ Return("none")
    /\ UNCHANGED <<driver, db, books_df, tx_log, db0, analytics_results, once>>
    /\ UNCHANGED caller_vars

ConstraintsFail ==
    /\ op = "create_constraints" /\ ip = "with"
    /\ Raise
    /\ UNCHANGED <<driver, db, constraints, books_df, tx_log, db0, analytics_results, once>>
    /\ UNCHANGED caller_vars

\* load_books: session.execute_write(create_book_nodes, batch) commits
LoadBatch ==
    /\ op = "load_books" /\ ip = "with"
    /\ i < Len(books_df)
    /\ LET batch == iloc(books_df, i, i + batch_size)
       IN /\ db' = create_book_nodes(db, batch)
          /\ tx_log' = Append(tx_log, [first |-> i, rows |-> Len(batch), committed |-> TRUE])
    /\ i' = i + batch_size
    /\ UNCHANGED <<driver, constraints, sessions, op, ip, books_df, db0, analytics_results,
                   result, once>>
    /\ UNCHANGED caller_vars

\* load_books: the transaction of the batch fails and is rolled back; the
\* exception leaves the loop and the with block
LoadBatchFail ==
    /\ op = "load_books" /\ ip = "with"
    /\ i < Len(books_df)
    /\ LET batch == iloc(books_df, i, i + batch_size)
       IN tx_log' = Append(tx_log, [first |-> i, rows |-> Len(batch), committed |-> FALSE])
    /\ Raise
    /\ UNCHANGED <<driver, db, constraints, books_df, db0, analytics_results, once>>
    /\ UNCHANGED caller_vars

\* load_books: range(0, len(books_df), batch_size) is exhausted
LoadReturn ==
    /\ op = "load_books" /\ ip = "with"
    /\ i >= Len(books_df)
    /\ sessions' = exit_with(sessions)
    /\ Return("none")
    /\ once' = IF db0 = EmptyGraph /\ books_df = cleaned_df
               THEN [set |-> TRUE, db |-> db] ELSE once
    /\ UNCHANGED <<driver, db, constraints, books_df, tx_log, db0, analytics_results>>
    /\ UNCHANGED caller_vars

\* run_analytics_queries: the i-th query and its dict entry
AnalyticsRun ==
    /\ op = "run_analytics_queries" /\ ip = "with"
    /\ analytics_results' =
          [k \in DOMAIN analytics_results \cup {AnalyticsKeys[i]} |->
              IF k = AnalyticsKeys[i] THEN analytics_query(db, i) ELSE analytics_results[k]]
    /\ IF i < Len(AnalyticsKeys)
       THEN /\ i' = i + 1
            /\ UNCHANGED <<op, ip, result, sessions>>
       ELSE /\ sessions' = exit_with(sessions)
            /\ Return("none")
    /\ UNCHANGED <<driver, db, constraints, books_df, tx_log, db0, once>>
    /\ UNCHANGED caller_vars

\* run_analytics_queries: a query raises, the method returns {}
AnalyticsFail ==
    /\ op = "run_analytics_queries" /\ ip = "with"
    /\ Raise
    /\ analytics_results' = EmptyDict
    /\ UNCHANGED <<driver, db, constraints, books_df, tx_log, db0, once>>
    /\ UNCHANGED caller_vars



\* ------------------------------------------------------------------------
\* A client of the connector: it normalizes one response and calls the
\* methods of the Graph Loader in any order
\* ------------------------------------------------------------------------
\* row counts around the batch boundaries, up to MaxRecords
RecordCounts ==
    {n \in 0..MaxRecords : n % batch_size \in {0, 1, batch_size - 1}} \cup {MaxRecords}

\* the works of a response repeat one of these sequences
Cycles == {<<Gatsby>>, WorkPool, <<Stories, Others, King>>}

works_of(n, cycle) == [k \in 1..n |-> cycle[((k - 1) % Len(cycle)) + 1]]

Days == 1..MaxDays

\* the records the client extracted from a response with n works
extracted(n, cycle) == extract_book_data(Body({"name", "works"}, works_of(n, cycle)))

InitConnector ==
    /\ driver = "None"
    /\ db = EmptyGraph
    /\ constraints = {}
    /\ sessions = 0
    /\ op = "idle"
    /\ ip = "try"
    /\ i = 0
    /\ books_df = <<>>
    /\ tx_log = <<>>
    /\ db0 = EmptyGraph
    /\ analytics_results = EmptyDict
    /\ result = NoResult
    /\ once = [set |-> FALSE, db |-> EmptyGraph]

Init ==
    /\ InitConnector
    /\ \E n \in RecordCounts, cycle \in Cycles : books = extracted(n, cycle)
    /\ cleaned_df = <<>>
    /\ pc = "extracted"
    /\ fetched = NoFetch
    /\ api_data = NoneValue
    /\ trace = <<>>
    /\ failed = {}
    /\ runs = 0

\* the client normalizes its records: cleaned_df = clean_data(pd.DataFrame(books));
\* without records it has an empty DataFrame
ClientClean ==
    /\ pc = "extracted"
    /\ \E today \in Days :
          cleaned_df' = IF books = <<>> THEN <<>> ELSE clean_data(books, today)
    /\ pc' = "client"
    /\ UNCHANGED <<fetched, api_data, books, trace, failed, runs>>
    /\ UNCHANGED conn_vars

\* the client calls a method of the connector; load_books gets cleaned_df
ClientCall ==
    /\ pc = "client"
    /\ \E o \in GraphLoaderOps :
          Invoke(o, IF o = "load_books" THEN cleaned_df ELSE <<>>)
    /\ UNCHANGED <<driver, db, constraints, sessions, once>>
    /\ UNCHANGED caller_vars

Next ==
    \/ ClientClean \/ ClientCall
    \/ Connect \/ ConnectFail \/ EnterSession
    \/ VerifyRun \/ VerifyFail
    \/ ClearRun \/ ClearFail
    \/ ConstraintsRun \/ ConstraintsFail
    \/ LoadBatch \/ LoadBatchFail \/ LoadReturn
    \/ AnalyticsRun \/ AnalyticsFail

Spec == Init /\ [][Next]_vars

\* ------------------------------------------------------------------------
\* main of open_library_API.py, run again and again against the same database
\* ------------------------------------------------------------------------
\* what requests.get can do: raise, or answer with a status and a body
Transport == [kind |-> "transport", status |-> 0, body |-> NoneValue]
Http(status, body) == [kind |-> "http", status |-> status, body |-> body]

WorkSeqs == UNION {[1..n -> {WorkPool[k] : k \in 1..Len(WorkPool)}] : n \in 0..MaxWorks}

Bodies ==
    {Body({"name", "works"}, ws) : ws \in WorkSeqs}
        \cup {Body({"works"}, <<Gatsby>>), Body({"name"}, <<>>), Body({}, <<>>)}

Responses ==
    {Transport, Http(404, Body({}, <<>>)), Http(500, Body({}, <<>>))}
        \cup {Http(200, b) : b \in Bodies}

\* fetch_books_by_subject: one GET; an exception of requests.get is not
\* caught, status 200 returns the parsed body, any other status returns None
fetch_books_by_subject(response) ==
    [gets |-> 1,
     raised |-> response.kind = "transport",
     value |-> IF response.kind = "http" /\ response.status = 200
               THEN response.body ELSE NoneValue]

\* "if not api_data:" and "if not books:" of main
proceed_anyway(data) == FALSE
fetch_failed(data) == falsy(data)
no_books(bs) == bs = <<>>

InitMain ==
    /\ InitConnector
    /\ cleaned_df = <<>>
    /\ pc = "start"
    /\ fetched = NoFetch
    /\ api_data = NoneValue
    /\ books = <<>>
    /\ trace = <<>>
    /\ failed = {}
    /\ runs = 1

Exit(reported) ==
    /\ pc' = "exited"
    /\ failed' = failed \cup reported

\* api_data = fetch_books_by_subject(subject)
MainFetch ==
    /\ pc = "start"
    /\ \E response \in Responses :
          LET f == fetch_books_by_subject(response)
          IN /\ fetched' = [gets |-> f.gets, outcome |-> response.kind,
                            status |-> response.status, raised |-> f.raised,
                            returned_none |-> f.value.isNone]
             /\ api_data' = f.value
             /\ IF f.raised
                THEN Exit({"fetch_books_by_subject"})
                ELSE pc' = "fetched" /\ UNCHANGED failed
    /\ trace' = Append(trace, "fetch_books_by_subject")
    /\ UNCHANGED <<cleaned_df, books, runs>>
    /\ UNCHANGED conn_vars

\* if not api_data: return;  books = extract_book_data(api_data)
MainExtract ==
    /\ pc = "fetched"
    /\ IF fetch_failed(api_data)
       THEN /\ Exit(IF api_data.isNone THEN {"fetch_books_by_subject"} ELSE {})
            /\ UNCHANGED <<books, trace>>
       ELSE /\ books' = extract_book_data(api_data)
            /\ trace' = Append(trace, "extract_book_data")
            /\ pc' = "extracted"
            /\ failed' = failed \cup
                  (IF api_data.isNone THEN {"fetch_books_by_subject"} ELSE {})
    /\ UNCHANGED <<cleaned_df, fetched, api_data, runs>>
    /\ UNCHANGED conn_vars

\* if not books: return;  DataFrame, clean_data, to_csv and the triples
MainClean ==
    /\ pc = "extracted"
    /\ IF no_books(books)
       THEN /\ Exit({"extract_book_data"})
            /\ UNCHANGED <<cleaned_df, trace>>
       ELSE /\ \E today \in Days : cleaned_df' = clean_data(books, today)
            /\ trace' = trace \o <<"clean_data", "to_csv", "generate_knowledge_graph_triples">>
            /\ pc' = "cleaned"
            /\ failed' = failed \cup (IF books = <<>> THEN {"extract_book_data"} ELSE {})
    /\ UNCHANGED <<fetched, api_data, books, runs>>
    /\ UNCHANGED conn_vars

\* main calls method o of the connector
MainCall(o, arg) ==
    /\ Invoke(o, arg)
    /\ trace' = Append(trace, o)
    /\ pc' = o
    /\ UNCHANGED <<db, constraints, sessions, once>>
    /\ UNCHANGED <<cleaned_df, fetched, api_data, books, runs>>

\* connector = Neo4jConnector(...);  if connector.connect():
MainConnect ==
    /\ pc = "cleaned"
    /\ MainCall("connect", <<>>)
    /\ driver' = "None"
    /\ UNCHANGED failed

\* connect() returned: clear_database() when it returned True, else the end
MainClear ==
    /\ pc = "connect" /\ op = "idle"
    /\ IF result.value = "True"
       THEN /\ MainCall("clear_database", <<>>)
            /\ UNCHANGED <<driver, failed>>
       ELSE /\ Exit({"connect"})
            /\ UNCHANGED conn_vars
            /\ UNCHANGED <<cleaned_df, fetched, api_data, books, trace, runs>>

\* connector.create_constraints()
MainConstraints ==
    /\ pc = "clear_database" /\ op = "idle"
    /\ MainCall("create_constraints", <<>>)
    /\ UNCHANGED <<driver, failed>>

\* connector.load_books(cleaned_df)
MainLoad ==
    /\ pc = "create_constraints" /\ op = "idle"
    /\ MainCall("load_books", cleaned_df)
    /\ UNCHANGED <<driver, failed>>

\* connector.close()
MainClose ==
    /\ pc = "load_books" /\ op = "idle"
    /\ MainCall("close", <<>>)
    /\ UNCHANGED <<driver, failed>>

\* main returns
MainReturn ==
    /\ pc = "close" /\ op = "idle"
    /\ Exit({})
    /\ UNCHANGED conn_vars
    /\ UNCHANGED <<cleaned_df, fetched, api_data, books, trace, runs>>

\* the program is started again: a new process, the same database
MainRestart ==
    /\ pc = "exited"
    /\ runs < MaxRuns
    /\ runs' = runs + 1
    /\ pc' = "start"
    /\ fetched' = NoFetch
    /\ api_data' = NoneValue
    /\ books' = <<>>
    /\ cleaned_df' = <<>>
    /\ trace' = <<>>
    /\ failed' = {}
    /\ driver' = "None"
    /\ op' = "idle" /\ ip' = "try" /\ i' = 0
    /\ books_df' = <<>>
    /\ tx_log' = <<>>
    /\ db0' = EmptyGraph
    /\ analytics_results' = EmptyDict
    /\ result' = NoResult
    /\ UNCHANGED <<db, constraints, sessions, once>>

NextMain ==
    \/ MainFetch \/ MainExtract \/ MainClean
    \/ MainConnect \/ MainClear \/ MainConstraints \/ MainLoad \/ MainClose
    \/ MainReturn \/ MainRestart
    \/ Connect \/ ConnectFail \/ Close \/ EnterSession
    \/ ClearRun \/ ClearFail
    \/ ConstraintsRun \/ ConstraintsFail
    \/ LoadBatch \/ LoadBatchFail \/ LoadReturn

SpecMain == InitMain /\ [][NextMain]_vars

\* ------------------------------------------------------------------------
\* Properties
\* ------------------------------------------------------------------------
Min(a, b) == IF a < b THEN a ELSE b

Returned(o) == op = "idle" /\ result.op = o

\* number of transactions the claims expect for n records: ceil(n / 50)
ExpectedTransactions(n) == (n + 49) \div 50

\* position in tx_log of the transaction that failed, 0 when none did
FailedAt == IF \E k \in 1..Len(tx_log) : ~tx_log[k].committed
            THEN CHOOSE k \in 1..Len(tx_log) : ~tx_log[k].committed ELSE 0

\* C1: when a batch transaction of load_books fails, the batches before it
\* remain committed in the graph and every batch after it is still attempted.
C1_LaterBatchesAttempted ==
    (Returned("load_books") /\ FailedAt > 0) =>
        /\ db = create_book_nodes(db0, SubSeq(books_df, 1, tx_log[FailedAt].first))
        /\ \A k \in 1..FailedAt - 1 : tx_log[k].committed
        /\ Len(tx_log) = ExpectedTransactions(Len(books_df))

Counts(g) ==
    <<Len(g.Book), Len(g.Author), Len(g.Subject), Len(g.Year),
      Len(g.HAS_SUBJECT), Len(g.PUBLISHED_IN), Len(g.WRITTEN_BY)>>

Distinct(seq) == \A a, b \in 1..Len(seq) : seq[a] = seq[b] => a = b

NoDuplicates(g) ==
    /\ Distinct([k \in 1..Len(g.Book) |-> g.Book[k].id])
    /\ Distinct(g.Author) /\ Distinct(g.Subject) /\ Distinct(g.Year)
    /\ Distinct(g.HAS_SUBJECT) /\ Distinct(g.PUBLISHED_IN) /\ Distinct(g.WRITTEN_BY)

\* a second load_books of the frame, called on the graph that one complete
\* load of it into an empty graph produced
SecondLoad == once.set /\ db0 = once.db /\ books_df = cleaned_df

\* C2: no load creates a second node with the same unique key or a second
\* relationship of the same type between the same two nodes; a second load
\* of the same frame never changes the node and relationship counts, and
\* when it has committed every batch the graph is the graph after one load.
C2_LoadIdempotent ==
    /\ NoDuplicates(db)
    /\ (SecondLoad /\ (op = "load_books" \/ Returned("load_books"))) =>
           Counts(db) = Counts(once.db)
    /\ (SecondLoad /\ Returned("load_books") /\ result.error = "none") => db = once.db

C2_Witness ==
    /\ SecondLoad /\ Returned("load_books") /\ result.error = "none"
    /\ Len(tx_log) = 3
    /\ Len(db.Book) > 1 /\ Len(db.WRITTEN_BY) > 1

\* C3: fetch_books_by_subject performs exactly one GET, never raises to its
\* caller, returns None on a non-200 status and on a transport failure, and
\* returns the parsed body only on status 200.
C3_FetchNeverRaises ==
    fetched.gets > 0 =>
        /\ fetched.gets = 1
        /\ ~fetched.raised
        /\ (fetched.outcome = "transport" \/ fetched.status # 200) => fetched.returned_none
        /\ ~fetched.returned_none => fetched.status = 200

\* C4: a Graph Loader operation that failed returns a failure indicator
\* (False or an empty result) which differs from what it returns on success.
C4_FailureDistinguishable ==
    (op = "idle" /\ result.op \in GraphLoaderOps /\ result.error # "none") =>
        /\ result.value \in {"False", "{}"}
        /\ result.value # return_value(result.op, FALSE)

\* C5: at most one session is open at any time, none is open between
\* operations, and every session an operation opened is released when it
\* returns, on the normal path and when a statement or a batch fails.
C5_SessionScoped ==
    /\ sessions \in {0, 1}
    /\ op = "idle" => sessions = 0
    /\ sessions = 1 => (op \in SessionOps /\ ip = "with")

C5_Witness ==
    /\ Returned("load_books") /\ result.error = "statement"
    /\ Len(tx_log) = 2
    /\ sessions = 0

\* the id the claim describes for a cleaned title and a year
DocumentedId(cleaned_title, year) ==
    "book_" \o SubSeq(sub_non_alnum(lower(cleaned_title)), 1,
                      Min(20, Len(sub_non_alnum(lower(cleaned_title)))))
            \o "_" \o (IF year = NaN THEN "nan" ELSE str_int(year))

\* C6: the id of every row that clean_data produced is book_<slug>_<year>,
\* a function of the row's own title and publish_year whatever the other
\* rows of the frame are.
C6_IdFromOwnRow ==
    \A k \in 1..Len(cleaned_df) :
        cleaned_df[k].id = DocumentedId(cleaned_df[k].title, cleaned_df[k].publish_year)

\* C7: transaction k of load_books covers rows 50*(k-1) .. min(50*k, n)-1, in
\* order; a load in which no transaction fails issues exactly ceil(n/50) of
\* them, and then every row is in exactly one transaction.
C7_Batches ==
    LET n == Len(books_df)
        last(k) == tx_log[k].first + tx_log[k].rows - 1
    IN /\ \A k \in 1..Len(tx_log) :
             /\ tx_log[k].first = 50 * (k - 1)
             /\ last(k) = Min(50 * k, n) - 1
             /\ k < ExpectedTransactions(n) => tx_log[k].rows = 50
       /\ Len(tx_log) <= ExpectedTransactions(n)
       /\ (Returned("load_books") /\ result.error = "none") =>
             /\ Len(tx_log) = ExpectedTransactions(n)
             /\ \A k \in 1..Len(tx_log) : tx_log[k].committed
             /\ \A r \in 0..n - 1 :
                   Cardinality({k \in 1..Len(tx_log) : tx_log[k].first <= r /\ r <= last(k)}) = 1

C7_Witness ==
    /\ Returned("load_books") /\ result.error = "none"
    /\ Len(books_df) = 101
    /\ [k \in 1..Len(tx_log) |-> tx_log[k].rows] = <<50, 50, 1>>

\* relationships of the list rels that start at a Book node with this id
EdgesFrom(g, rels, id) == {k \in 1..Len(rels) : g.Book[rels[k][1]].id = id}

\* C8: after a work is extracted, normalized and loaded, its Book node has
\* one WRITTEN_BY relationship per author of the work, each to an Author
\* node with that author's name, none when the authors are unknown, and one
\* PUBLISHED_IN relationship exactly when first_publish_year is present.
C8_EdgesPerWork ==
    (pc = "load_books" /\ Returned("load_books") /\ result.error = "none") =>
        \A k \in 1..Len(api_data.works) :
            LET work == api_data.works[k]
                id == cleaned_df[k].id
                names == author_names(work)
                written == EdgesFrom(db, db.WRITTEN_BY, id)
                published == EdgesFrom(db, db.PUBLISHED_IN, id)
            IN /\ Cardinality(match_book(db, id)) = 1
               /\ Cardinality(written) = Len(names)
               /\ \A a \in 1..Len(names) :
                     \E e \in written : db.Author[db.WRITTEN_BY[e][2]].name = names[a]
               /\ Cardinality(published) =
                     IF "first_publish_year" \in work.keys THEN 1 ELSE 0

InTrace(stage) == \E j \in 1..Len(trace) : trace[j] = stage

AfterExtraction ==
    {"clean_data", "to_csv", "generate_knowledge_graph_triples", "connect",
     "clear_database", "create_constraints", "load_books", "close"}

\* C9: in a run of main, extract_book_data is not called after a fetch that
\* failed, nothing runs after an empty extraction, clear_database,
\* create_constraints and load_books are called only after connect()
\* returned True, and a stage that signalled failure is the last one called.
C9_NoStageAfterFailure ==
    /\ InTrace("extract_book_data") =>
          (fetched.gets = 1 /\ ~fetched.raised /\ ~fetched.returned_none)
    /\ (\E s \in AfterExtraction : InTrace(s)) =>
          (InTrace("extract_book_data") /\ books # <<>>)
    /\ \A j \in 1..Len(trace) :
          trace[j] \in {"clear_database", "create_constraints", "load_books"} =>
              /\ \E k \in 1..j - 1 : trace[k] = "connect"
              /\ "connect" \notin failed
    /\ \A s \in failed : pc = "exited" /\ trace[Len(trace)] = s

C9_Witness ==
    /\ pc = "exited"
    /\ failed = {"connect"}
    /\ trace[Len(trace)] = "connect"
    /\ cleaned_df # <<>>

\* C10: load_books of a run never executes on a graph that holds data of an
\* earlier run, and after it has written the graph holds only what this
\* run's records produce.
C10_FullReload ==
    (pc = "load_books" /\ (op = "load_books" \/ Returned("load_books"))) =>
        /\ db0 = EmptyGraph
        /\ (\E k \in 1..Len(tx_log) : tx_log[k].committed) =>
              db = create_book_nodes(EmptyGraph,
                                     SubSeq(cleaned_df, 1, IF FailedAt > 0
                                                           THEN tx_log[FailedAt].first
                                                           ELSE Len(cleaned_df)))

====
